---- MODULE Spec2Model ----
(***************************************************************************)
(* Event-management console: the route guard of App.tsx, the login view   *)
(* with its two sign-in handlers and the three record pages (EventsPage,   *)
(* AttendeesPage, TasksPage) with their fetch / mutate / re-fetch          *)
(* handlers.  Every async handler is a process                             *)
(* held in a slot of `ops`; each await is one remote call, split into the  *)
(* backend serving the request and the client resuming on the response.    *)
(***************************************************************************)
EXTENDS Integers, Sequences, FiniteSets, TLC

\* ------------------------------------------------------------------ bounds
MaxOps == 2   \* invocations in flight when one more handler may start
MaxIds == 2   \* rows the backend ever creates (identifiers are never reused)

\* --------------------------------------------------------------- constants
Pages  == {"events", "attendees", "tasks"}
Routes == Pages \cup {"login"}
NoUser == "none"
Users  == {"u1"}
NoUserMsg  == "No user found"
BackendMsg == "backend error"

NoToast == [type |-> "none", msg |-> ""]
ToastError(m)   == [type |-> "error", msg |-> m]
ToastSuccess(m) == [type |-> "success", msg |-> m]

NullRef == [null |-> TRUE]

\* ------------------------------------------------------------ date values
\* new Date(local).toISOString(), browser clock in UTC
ToISOString(d) ==
  CASE d = "2025-05-30T09:00" -> "2025-05-30T09:00:00.000Z"
    [] d = "2025-06-01T10:00" -> "2025-06-01T10:00:00.000Z"
    [] OTHER -> "Invalid Date"

\* format(new Date(iso), "yyyy-MM-dd'T'HH:mm")
FormatLocal(iso) ==
  CASE iso = "2025-05-30T09:00:00.000Z" -> "2025-05-30T09:00"
    [] iso = "2025-06-01T10:00:00.000Z" -> "2025-06-01T10:00"
    [] OTHER -> "Invalid Date"

\* position of a timestamp in the backend's ascending order
DateRank(iso) ==
  CASE iso = "2025-05-30T09:00:00.000Z" -> 1
    [] iso = "2025-06-01T10:00:00.000Z" -> 2
    [] OTHER -> 0

\* position of a name in the backend's ascending text order
NameRank(n) ==
  CASE n = "Ann" -> 1
    [] n = "Bob" -> 2
    [] OTHER -> 0

\* ------------------------------------------------------------------ forms
NoForm == [none |-> TRUE]

EmptyForm(p) ==
  CASE p = "events"    -> [name |-> "", description |-> "", location |-> "", date |-> ""]
    [] p = "attendees" -> [name |-> "", email |-> "", task |-> ""]
    [] p = "tasks"     -> [name |-> "", deadline |-> "", event_id |-> 0, attendee_id |-> 0]
    [] OTHER           -> NoForm

\* what the user can type into the event form
EventForms ==
  { [name |-> "Launch", description |-> "", location |-> "HQ", date |-> "2025-06-01T10:00"],
    [name |-> "Gala", description |-> "Dinner", location |-> "Hall", date |-> "2025-05-30T09:00"] }

\* what the user can type into the attendee form
AttendeeForms ==
  { [name |-> "Bob", email |-> "bob@x.io", task |-> "Setup"] }

\* what the user can pick in the task form: the <select> options are the
\* loaded event and attendee choices plus the empty option (0)
TaskForms(evs, atts) ==
  { [name |-> "Prep deck", deadline |-> d, event_id |-> e, attendee_id |-> a] :
      d \in {"2025-05-30T09:00"},
      e \in {c.id : c \in evs} \cup {0},
      a \in {c.id : c \in atts} \cup {0} }

\* browser-enforced `required` attributes of each form
Valid(p, f) ==
  CASE p = "events"    -> f.name # "" /\ f.location # "" /\ f.date # ""
    [] p = "attendees" -> f.name # "" /\ f.email # ""
    [] p = "tasks"     -> f.name # "" /\ f.event_id # 0 /\ f.deadline # ""
    [] OTHER           -> FALSE

\* ------------------------------------------------------------------ state
VARIABLES
  session,    \* Session Store: TRUE when a session is present
  route,      \* the view the router currently renders
  db,         \* backend rows: [events, attendees, tasks], each a set of rows
  nextId,     \* next identifier the backend hands out
  items,      \* the mounted page's list (events / attendees / tasks)
  loading,    \* the mounted page's loading flag
  showForm,   \* the mounted page's form-visibility flag
  formData,   \* the mounted page's form fields
  events,     \* TasksPage: event choices of the form
  attendees,  \* TasksPage: attendee choices of the form
  ops,        \* the fetchAll / create / toggle / delete invocations in flight
  choiceOps,  \* TasksPage: the fetchEvents / fetchAttendees invocation of the mount
  notice,     \* the toast raised by the latest step (NoToast when none)
  lastAct     \* the latest step, when it was a navigation, an edit, a declined
              \* delete, a served status update or the end of a handler's run:
              \* [act, slot, arg]

vars == <<session, route, db, nextId, items, loading, showForm, formData,
          events, attendees, ops, choiceOps, notice, lastAct>>

pageVars == <<items, loading, showForm, formData, events, attendees>>

Slots == 1..MaxOps
Running == DOMAIN ops

\* One invocation of an async handler.  kind/pc: the handler and the await
\* it is suspended at; page/live: the component instance that started it and
\* whether that instance is still mounted; user/form/id/status: the handler's
\* locals; ok/res: the response it is about to resume with.
\* solo/cause/sync/edit describe how the invocation came about: no other
\* invocation was in flight at any moment of its life, the user action behind
\* it, whether items matched the backend at that action, the record whose
\* edit button had filled the submitted form.  They are kept only while solo
\* holds and the instance is mounted.
Idle == [kind |-> "idle", pc |-> "", page |-> "", live |-> FALSE, user |-> NoUser,
         form |-> NoForm, id |-> 0, status |-> "", ok |-> FALSE, res |-> <<>>,
         cause |-> "", solo |-> FALSE, sync |-> FALSE, edit |-> 0]

Forget(op) ==
  [op EXCEPT !.solo = FALSE, !.cause = "", !.sync = FALSE, !.edit = 0,
             !.form = IF op.kind = "fetch" THEN NoForm ELSE @,
             !.id = IF op.kind = "fetch" THEN 0 ELSE @,
             !.status = IF op.kind = "fetch" THEN "" ELSE @]

\* An invocation of an unmounted instance: its setState calls are discarded,
\* so of its locals only those a later remote call or toast still reads are kept.
Orphan(op) ==
  [op EXCEPT !.res = <<>>,
             !.page = IF op.kind = "fetch" THEN "" ELSE @,
             !.user = IF op.kind = "submit" /\ op.pc = "insert" THEN @ ELSE NoUser,
             !.form = IF op.kind = "submit" /\ op.pc \in {"getUser", "insert"}
                        THEN @ ELSE NoForm,
             !.id = IF op.pc \in {"update", "delete"} THEN @ ELSE 0,
             !.status = IF op.pc = "update" THEN @ ELSE ""]

Tidy(o) == [s \in DOMAIN o |-> IF o[s].live THEN o[s] ELSE Orphan(o[s])]

RemoveAt(q, s) == [i \in 1..(Len(q) - 1) |-> IF i < s THEN q[i] ELSE q[i + 1]]

Range(q) == {q[i] : i \in 1..Len(q)}

\* slot: the invocation's position in ops (for Edit and ToggleServe: the
\* record's identifier); arg: the route, the user, the cause of the fetch, the
\* status stored before the update
Act(a, s, x) == [act |-> a, slot |-> s, arg |-> x]
NoAct == Act("", 0, "")

\* ---------------------------------------------------------------- backend
SortKey(p, r) ==
  CASE p = "events"    -> DateRank(r.date)
    [] p = "attendees" -> NameRank(r.name)
    [] p = "tasks"     -> DateRank(r.deadline)
    [] OTHER           -> 0

\* every ordering of the rows S that is ascending in the page's sort key
SortedSeqs(p, S) ==
  LET n == Cardinality(S)
  IN { q \in [1..n -> S] :
         /\ \A i, j \in 1..n : i # j => q[i] # q[j]
         /\ \A i, j \in 1..n : i < j => SortKey(p, q[i]) <= SortKey(p, q[j]) }

\* the embedded resource event:events(name) / attendee:attendees(name)
Embed(rows, id) ==
  IF \E r \in rows : r.id = id
    THEN [name |-> (CHOOSE r \in rows : r.id = id).name]
    ELSE NullRef

\* rows of page p visible to user u, as the page's select returns them
Visible(d, p, u) ==
  LET mine == {r \in d[p] : r.user_id = u}
  IN IF p = "tasks"
       THEN { [id |-> r.id, name |-> r.name, deadline |-> r.deadline,
               event_id |-> r.event_id, attendee_id |-> r.attendee_id,
               status |-> r.status, user_id |-> r.user_id,
               event |-> Embed(d.events, r.event_id),
               attendee |-> Embed(d.attendees, r.attendee_id)] : r \in mine }
       ELSE mine

\* an insert that leaves the status of a task to the backend
NewRow_NoStatus(p, f, u, id) ==
  CASE p = "events" ->
         [id |-> id, name |-> f.name, description |-> f.description,
          location |-> f.location, date |-> ToISOString(f.date), user_id |-> u]
    [] p = "attendees" ->
         [id |-> id, name |-> f.name, email |-> f.email, task |-> f.task,
          user_id |-> u]
    [] p = "tasks" ->
         [id |-> id, name |-> f.name, deadline |-> ToISOString(f.deadline),
          event_id |-> f.event_id, attendee_id |-> f.attendee_id,
          status |-> "", user_id |-> u]

\* an insert that sends the form's date as typed
NewRow_RawDate(p, f, u, id) ==
  CASE p = "events" ->
         [id |-> id, name |-> f.name, description |-> f.description,
          location |-> f.location, date |-> f.date, user_id |-> u]
    [] p = "attendees" ->
         [id |-> id, name |-> f.name, email |-> f.email, task |-> f.task,
          user_id |-> u]
    [] p = "tasks" ->
         [id |-> id, name |-> f.name, deadline |-> f.deadline,
          event_id |-> f.event_id, attendee_id |-> f.attendee_id,
          status |-> "pending", user_id |-> u]

\* the row an insert stores for form f submitted by user u
NewRow(p, f, u, id) ==
  CASE p = "events" ->
         [id |-> id, name |-> f.name, description |-> f.description,
          location |-> f.location, date |-> ToISOString(f.date), user_id |-> u]
    [] p = "attendees" ->
         [id |-> id, name |-> f.name, email |-> f.email, task |-> f.task,
          user_id |-> u]
    [] p = "tasks" ->
         [id |-> id, name |-> f.name, deadline |-> ToISOString(f.deadline),
          event_id |-> f.event_id, attendee_id |-> f.attendee_id,
          status |-> "pending", user_id |-> u]

\* foreign keys of tasks: the event must exist, the attendee must exist or be unset
RefsOk(d, p, f) ==
  p = "tasks" =>
    /\ \E e \in d.events : e.id = f.event_id
    /\ f.attendee_id = 0 \/ \E a \in d.attendees : a.id = f.attendee_id

\* delete by identifier; tasks that reference a deleted event go with it,
\* tasks that reference a deleted attendee go with it or become unassigned
DeleteRow(d, p, id, policy) ==
  CASE p = "events" ->
         [d EXCEPT !.events = {r \in @ : r.id # id},
                   !.tasks  = {t \in @ : t.event_id # id}]
    [] p = "attendees" ->
         [d EXCEPT !.attendees = {r \in @ : r.id # id},
                   !.tasks = IF policy = "cascade"
                               THEN {t \in @ : t.attendee_id # id}
                               ELSE {IF t.attendee_id = id
                                       THEN [t EXCEPT !.attendee_id = 0]
                                       ELSE t : t \in @}]
    [] p = "tasks" ->
         [d EXCEPT !.tasks = {r \in @ : r.id # id}]

StatusOf(d, id) ==
  IF \E t \in d.tasks : t.id = id
    THEN (CHOOSE t \in d.tasks : t.id = id).status
    ELSE ""

\* an update sent without its .eq('id', id) filter
UpdateStatus_NoFilter(d, id, st) ==
  [d EXCEPT !.tasks = {[t EXCEPT !.status = st] : t \in @}]

\* update({status}).eq('id', id)
UpdateStatus(d, id, st) ==
  [d EXCEPT !.tasks = {IF t.id = id THEN [t EXCEPT !.status = st] ELSE t : t \in @}]

\* ------------------------------------------------------------ route guard
\* a guard that lets every route through
ProtectedRoute_NoGuard(sess, r) == r

\* a guard wrapped around the events and attendees routes only
ProtectedRoute_TasksOutside(sess, r) == IF ~sess /\ r # "tasks" THEN "login" ELSE r

\* ProtectedRoute: the view rendered for a protected route
ProtectedRoute(sess, r) == IF ~sess THEN "login" ELSE r

\* the view the router ends on for a requested route; the login view's
\* effect navigates to /events when a session is present
Resolve(sess, r) ==
  IF r = "login"
    THEN IF sess THEN "events" ELSE "login"
    ELSE ProtectedRoute(sess, r)

Unmount(o) == Tidy([s \in DOMAIN o |-> Forget([o[s] EXCEPT !.live = FALSE])])

Overlapped(o) == [s \in DOMAIN o |-> Forget(o[s])]

\* start one more handler invocation
Start(o, op) ==
  IF o = <<>> THEN <<[op EXCEPT !.solo = TRUE]>>
  ELSE Append(Overlapped(o), Forget(op))

ChoicesRunning == Cardinality({k \in DOMAIN choiceOps : choiceOps[k].pc # ""})

\* a handler is started only while fewer than MaxOps invocations are in flight
Room(n) == Len(ops) + ChoicesRunning + n <= MaxOps

InSync(p) == \E u \in Users : Range(items) = Visible(db, p, u)

FetchOp(p, why) ==
  [Idle EXCEPT !.kind = "fetch", !.pc = "getUser", !.page = p, !.live = TRUE,
               !.cause = why]

ChoiceKinds == {"fetchEvents", "fetchAttendees"}

ChoiceIdle == [pc |-> "", user |-> NoUser, ok |-> FALSE, opts |-> {}]

\* the useEffect of TasksPage also calls fetchEvents() and fetchAttendees();
\* when the page unmounts they are dropped: all they would still do is a
\* setState of the unmounted instance
MountChoices(p) ==
  [k \in ChoiceKinds |->
     IF p = "tasks" THEN [ChoiceIdle EXCEPT !.pc = "getUser"] ELSE ChoiceIdle]

\* the useEffect of each page, run once when it mounts
MountEffect(p, o) ==
  IF p \in Pages THEN Start(o, FetchOp(p, "mount")) ELSE o

SlotsNeeded(p) == IF p \in Pages THEN 1 ELSE 0

\* the router switches to view dest: the old page unmounts, the new one
\* mounts with its initial useState values and runs its effect
\* (a redirect back to /login passes through the guard's <Navigate>, so the
\* login view is a new instance as well)
GoTo(dest) ==
  /\ route' = dest
  /\ items' = <<>>
  /\ loading' = (dest \in Pages)
  /\ showForm' = FALSE
  /\ formData' = EmptyForm(dest)
  /\ events' = {}
  /\ attendees' = {}
  /\ ops' = MountEffect(dest, Unmount(ops))
  /\ choiceOps' = MountChoices(dest)

Init ==
  /\ session = FALSE
  /\ route = "login"
  /\ db = [events |-> {}, attendees |-> {}, tasks |-> {}]
  /\ nextId = 1
  /\ items = <<>>
  /\ loading = FALSE
  /\ showForm = FALSE
  /\ formData = EmptyForm("login")
  /\ events = {}
  /\ attendees = {}
  /\ ops = <<>>
  /\ choiceOps = MountChoices("login")
  /\ notice = NoToast
  /\ lastAct = Act("Init", 0, "")

\* the Session Store reports a sign-in or a sign-out; the guard and the
\* login view re-render with the new value
SessionChanged(v) ==
  /\ v # session
  /\ session' = v
  /\ LET dest == IF route = "login" THEN Resolve(v, "login")
                 ELSE ProtectedRoute(v, route)
     IN /\ Room(SlotsNeeded(dest))
        /\ GoTo(dest)
  /\ notice' = NoToast
  /\ lastAct' = NoAct
  /\ UNCHANGED <<db, nextId>>

\* the user opens route r
Navigate(r) ==
  LET dest == Resolve(session, r)
  IN /\ r # route
     /\ Room(SlotsNeeded(dest))
     /\ GoTo(dest)
     /\ notice' = NoToast
     /\ lastAct' = Act("Navigate", 0, r)
     /\ UNCHANGED <<session, db, nextId>>

\* ------------------------------------------------------------ page: form
OnPage == route \in Pages /\ ~loading

FormChoices(p) ==
  CASE p = "events"    -> EventForms
    [] p = "attendees" -> AttendeeForms
    [] p = "tasks"     -> TaskForms(events, attendees)
    [] OTHER           -> {}

\* the "New ..." button: setShowForm(!showForm)
ToggleForm ==
  /\ OnPage
  /\ showForm' = ~showForm
  /\ notice' = NoToast
  /\ lastAct' = NoAct
  /\ UNCHANGED <<session, route, db, nextId, items, loading, formData, events,
                 attendees, ops, choiceOps>>

\* the Cancel button of the form: setShowForm(false)
Cancel ==
  /\ OnPage /\ showForm
  /\ showForm' = FALSE
  /\ notice' = NoToast
  /\ lastAct' = NoAct
  /\ UNCHANGED <<session, route, db, nextId, items, loading, formData, events,
                 attendees, ops, choiceOps>>

\* the onChange handlers of the inputs: setFormData({...formData, field})
SetFormData(f) ==
  /\ OnPage /\ showForm
  /\ f \in FormChoices(route)
  /\ f # formData
  /\ formData' = f
  /\ notice' = NoToast
  /\ lastAct' = NoAct
  /\ UNCHANGED <<session, route, db, nextId, items, loading, showForm, events,
                 attendees, ops, choiceOps>>

\* the form values the edit button fills in from a listed record
EditForm(p, r) ==
  CASE p = "events" ->
         [name |-> r.name, description |-> r.description,
          location |-> r.location, date |-> FormatLocal(r.date)]
    [] p = "attendees" ->
         [name |-> r.name, email |-> r.email, task |-> r.task]

\* the edit button of a listed event or attendee
Edit(i) ==
  /\ OnPage /\ route \in {"events", "attendees"}
  /\ i \in 1..Len(items)
  /\ formData' = EditForm(route, items[i])
  /\ showForm' = TRUE
  /\ notice' = NoToast
  /\ lastAct' = Act("Edit", items[i].id, "")
  /\ UNCHANGED <<session, route, db, nextId, items, loading, events,
                 attendees, ops, choiceOps>>

\* --------------------------------------------------------- page: fetchAll
Finish(o, s) == RemoveAt(o, s)

\* fetchEvents / fetchAttendees / fetchTasks resumes from getUser()
FetchGetUser(s, u) ==
  /\ s \in Running
  /\ ops[s].kind = "fetch" /\ ops[s].pc = "getUser"
  /\ IF u = NoUser
       THEN /\ notice' = ToastError(NoUserMsg)
            /\ loading' = IF ops[s].live THEN FALSE ELSE loading
            /\ ops' = Finish(ops, s)
       ELSE /\ notice' = NoToast
            /\ ops' = Tidy([ops EXCEPT ![s].pc = "select", ![s].user = u])
            /\ UNCHANGED loading
  /\ lastAct' = IF u = NoUser THEN Act("FetchGetUser", s, u) ELSE NoAct
  /\ UNCHANGED <<session, route, db, nextId, items, showForm, formData,
                 events, attendees, choiceOps>>

\* the backend answers the page's select ... order(...)
FetchServe(s, ok) ==
  /\ s \in Running
  /\ ops[s].kind = "fetch" /\ ops[s].pc = "select"
  /\ IF ok
       THEN \E q \in IF ops[s].live
                       THEN SortedSeqs(ops[s].page, Visible(db, ops[s].page, ops[s].user))
                       ELSE {<<>>} :
              ops' = Tidy([ops EXCEPT ![s].pc = "selectResp", ![s].ok = TRUE, ![s].res = q])
       ELSE ops' = Tidy([ops EXCEPT ![s].pc = "selectResp", ![s].ok = FALSE])
  /\ notice' = NoToast
  /\ lastAct' = NoAct
  /\ UNCHANGED <<session, route, db, nextId, pageVars, choiceOps>>

\* what lastAct tells of a completed fetch: the user action behind it, or
\* "stale" when items did not match the backend at that action
FetchTag(op) ==
  IF op.cause \in {"submit", "toggle", "delete"} /\ ~op.sync THEN "stale" ELSE op.cause

\* a fetch that drops its response when a later invocation is in flight
FetchRecv_NewestOnly(s) ==
  /\ s \in Running
  /\ ops[s].kind = "fetch" /\ ops[s].pc = "selectResp"
  /\ IF ops[s].ok
       THEN /\ items' = IF ops[s].live /\ s = Len(ops) THEN ops[s].res ELSE items
            /\ notice' = NoToast
       ELSE /\ notice' = ToastError(BackendMsg)
            /\ UNCHANGED items
  /\ loading' = IF ops[s].live THEN FALSE ELSE loading
  /\ ops' = Finish(ops, s)
  /\ lastAct' = Act("FetchRecv", s, FetchTag(ops[s]))
  /\ UNCHANGED <<session, route, db, nextId, showForm, formData, events,
                 attendees, choiceOps>>

\* a catch block that also empties the list
FetchRecv_ClearsOnError(s) ==
  /\ s \in Running
  /\ ops[s].kind = "fetch" /\ ops[s].pc = "selectResp"
  /\ IF ops[s].ok
       THEN /\ items' = IF ops[s].live THEN ops[s].res ELSE items
            /\ notice' = NoToast
       ELSE /\ notice' = ToastError(BackendMsg)
            /\ items' = IF ops[s].live THEN <<>> ELSE items
  /\ loading' = IF ops[s].live THEN FALSE ELSE loading
  /\ ops' = Finish(ops, s)
  /\ lastAct' = Act("FetchRecv", s, FetchTag(ops[s]))
  /\ UNCHANGED <<session, route, db, nextId, showForm, formData, events,
                 attendees, choiceOps>>

\* the page's fetch resumes from the select: setItems(data) or toast.error,
\* then finally setLoading(false)
FetchRecv(s) ==
  /\ s \in Running
  /\ ops[s].kind = "fetch" /\ ops[s].pc = "selectResp"
  /\ IF ops[s].ok
       THEN /\ items' = IF ops[s].live THEN ops[s].res ELSE items
            /\ notice' = NoToast
       ELSE /\ notice' = ToastError(BackendMsg)
            /\ UNCHANGED items
  /\ loading' = IF ops[s].live THEN FALSE ELSE loading
  /\ ops' = Finish(ops, s)
  /\ lastAct' = Act("FetchRecv", s, FetchTag(ops[s]))
  /\ UNCHANGED <<session, route, db, nextId, showForm, formData, events,
                 attendees, choiceOps>>

\* the call fetchX() made by a handler that has just succeeded: the handler
\* ends and the fetch runs up to its first await
Refetch(o, s) ==
  [o EXCEPT ![s] = IF @.solo
                     THEN [@ EXCEPT !.kind = "fetch", !.pc = "getUser", !.ok = FALSE]
                     ELSE [FetchOp(@.page, "") EXCEPT !.live = o[s].live]]

\* ----------------------------------------------------------- page: create
PendingInserts ==
  Cardinality({s \in Running : ops[s].kind = "submit" /\ ops[s].pc \in {"getUser", "insert"}})

\* the form's onSubmit: handleSubmit runs up to its first await
HandleSubmit ==
  /\ OnPage /\ showForm
  /\ Valid(route, formData)
  /\ Room(1)
  /\ nextId + PendingInserts <= MaxIds
  /\ ops' = Start(ops, [Idle EXCEPT !.kind = "submit", !.pc = "getUser",
                                    !.page = route, !.live = TRUE,
                                    !.form = formData, !.cause = "submit",
                                    !.sync = InSync(route),
                                    !.edit = IF lastAct.act = "Edit" THEN lastAct.slot ELSE 0])
  /\ notice' = NoToast
  /\ lastAct' = NoAct
  /\ UNCHANGED <<session, route, db, nextId, pageVars, choiceOps>>

\* a handleSubmit that asks for the user again when there is none
SubmitGetUser_Retries(s, u) ==
  /\ s \in Running
  /\ ops[s].kind = "submit" /\ ops[s].pc = "getUser"
  /\ IF u = NoUser
       THEN /\ notice' = ToastError(NoUserMsg)
            /\ ops' = ops
       ELSE /\ notice' = NoToast
            /\ ops' = Tidy([ops EXCEPT ![s].pc = "insert", ![s].user = u])
  /\ lastAct' = IF u = NoUser THEN Act("SubmitGetUser", s, u) ELSE NoAct
  /\ UNCHANGED <<session, route, db, nextId, pageVars, choiceOps>>

\* handleSubmit resumes from getUser()
SubmitGetUser(s, u) ==
  /\ s \in Running
  /\ ops[s].kind = "submit" /\ ops[s].pc = "getUser"
  /\ IF u = NoUser
       THEN /\ notice' = ToastError(NoUserMsg)
            /\ ops' = Finish(ops, s)
       ELSE /\ notice' = NoToast
            /\ ops' = Tidy([ops EXCEPT ![s].pc = "insert", ![s].user = u])
  /\ lastAct' = IF u = NoUser THEN Act("SubmitGetUser", s, u) ELSE NoAct
  /\ UNCHANGED <<session, route, db, nextId, pageVars, choiceOps>>

\* the backend answers the insert
SubmitServe(s, ok) ==
  /\ s \in Running
  /\ ops[s].kind = "submit" /\ ops[s].pc = "insert"
  /\ IF ok /\ RefsOk(db, ops[s].page, ops[s].form)
       THEN /\ db' = [db EXCEPT ![ops[s].page] =
                        @ \cup {NewRow(ops[s].page, ops[s].form, ops[s].user, nextId)}]
            /\ nextId' = nextId + 1
            /\ ops' = Tidy([ops EXCEPT ![s].pc = "insertResp", ![s].ok = TRUE,
                                  ![s].id = nextId])
       ELSE /\ ops' = Tidy([ops EXCEPT ![s].pc = "insertResp", ![s].ok = FALSE])
            /\ UNCHANGED <<db, nextId>>
  /\ notice' = NoToast
  /\ lastAct' = NoAct
  /\ UNCHANGED <<session, route, pageVars, choiceOps>>

CreatedMsg(p) ==
  CASE p = "events"    -> "Event created successfully"
    [] p = "attendees" -> "Attendee added successfully"
    [] p = "tasks"     -> "Task created successfully"

\* a catch block that also closes and clears the form
SubmitRecv_ResetsOnError(s) ==
  /\ s \in Running
  /\ ops[s].kind = "submit" /\ ops[s].pc = "insertResp"
  /\ showForm' = IF ops[s].live THEN FALSE ELSE showForm
  /\ formData' = IF ops[s].live THEN EmptyForm(ops[s].page) ELSE formData
  /\ IF ops[s].ok
       THEN /\ notice' = ToastSuccess(CreatedMsg(ops[s].page))
            /\ ops' = Tidy(Refetch(ops, s))
       ELSE /\ notice' = ToastError(BackendMsg)
            /\ ops' = Finish(ops, s)
  /\ lastAct' = Act("SubmitRecv", s, "")
  /\ UNCHANGED <<session, route, db, nextId, items, loading, events, attendees,
                 choiceOps>>

\* handleSubmit resumes from the insert
SubmitRecv(s) ==
  /\ s \in Running
  /\ ops[s].kind = "submit" /\ ops[s].pc = "insertResp"
  /\ IF ops[s].ok
       THEN /\ notice' = ToastSuccess(CreatedMsg(ops[s].page))
            /\ showForm' = IF ops[s].live THEN FALSE ELSE showForm
            /\ formData' = IF ops[s].live THEN EmptyForm(ops[s].page) ELSE formData
            /\ ops' = Tidy(Refetch(ops, s))
       ELSE /\ notice' = ToastError(BackendMsg)
            /\ ops' = Finish(ops, s)
            /\ UNCHANGED <<showForm, formData>>
  /\ lastAct' = Act("SubmitRecv", s, "")
  /\ UNCHANGED <<session, route, db, nextId, items, loading, events, attendees,
                 choiceOps>>

\* ----------------------------------------------------- page: toggleStatus
NewStatus(currentStatus) ==
  IF currentStatus = "pending" THEN "completed" ELSE "pending"

\* the status button of a listed task: toggleStatus(task.id, task.status)
\* runs up to its await
ToggleStatus(i) ==
  /\ OnPage /\ route = "tasks"
  /\ i \in 1..Len(items)
  /\ Room(1)
  /\ ops' = Start(ops, [Idle EXCEPT !.kind = "toggle", !.pc = "update",
                                    !.page = route, !.live = TRUE,
                                    !.id = items[i].id,
                                    !.status = NewStatus(items[i].status),
                                    !.cause = "toggle",
                                    !.sync = InSync(route)])
  /\ notice' = NoToast
  /\ lastAct' = NoAct
  /\ UNCHANGED <<session, route, db, nextId, pageVars, choiceOps>>

\* the backend answers the update
ToggleServe(s, ok) ==
  /\ s \in Running
  /\ ops[s].kind = "toggle" /\ ops[s].pc = "update"
  /\ IF ok
       THEN /\ db' = UpdateStatus(db, ops[s].id, ops[s].status)
            /\ ops' = Tidy([ops EXCEPT ![s].pc = "updateResp", ![s].ok = TRUE])
       ELSE /\ ops' = Tidy([ops EXCEPT ![s].pc = "updateResp", ![s].ok = FALSE])
            /\ UNCHANGED db
  /\ notice' = NoToast
  /\ lastAct' = IF ok THEN Act("ToggleServe", ops[s].id, StatusOf(db, ops[s].id)) ELSE NoAct
  /\ UNCHANGED <<session, route, nextId, pageVars, choiceOps>>

\* a toggleStatus whose re-fetch puts the page back into its loading view
ToggleRecv_ShowsLoading(s) ==
  /\ s \in Running
  /\ ops[s].kind = "toggle" /\ ops[s].pc = "updateResp"
  /\ IF ops[s].ok
       THEN /\ notice' = NoToast
            /\ ops' = Tidy(Refetch(ops, s))
            /\ loading' = IF ops[s].live THEN TRUE ELSE loading
       ELSE /\ notice' = ToastError(BackendMsg)
            /\ ops' = Finish(ops, s)
            /\ UNCHANGED loading
  /\ lastAct' = Act("ToggleRecv", s, "")
  /\ UNCHANGED <<session, route, db, nextId, items, showForm, formData, events,
                 attendees, choiceOps>>

\* toggleStatus resumes from the update
ToggleRecv(s) ==
  /\ s \in Running
  /\ ops[s].kind = "toggle" /\ ops[s].pc = "updateResp"
  /\ IF ops[s].ok
       THEN /\ notice' = NoToast
            /\ ops' = Tidy(Refetch(ops, s))
       ELSE /\ notice' = ToastError(BackendMsg)
            /\ ops' = Finish(ops, s)
  /\ lastAct' = Act("ToggleRecv", s, "")
  /\ UNCHANGED <<session, route, db, nextId, pageVars, choiceOps>>

\* ----------------------------------------------------------- page: delete
\* a handleDelete that does not look at what confirm(...) returned
HandleDelete_NoConfirm(i, confirmed) ==
  /\ OnPage
  /\ i \in 1..Len(items)
  /\ Room(1)
  /\ ops' = Start(ops, [Idle EXCEPT !.kind = "delete", !.pc = "delete",
                                    !.page = route, !.live = TRUE,
                                    !.id = items[i].id,
                                    !.cause = "delete",
                                    !.sync = InSync(route)])
  /\ lastAct' = IF confirmed THEN NoAct ELSE Act("HandleDelete", 0, "declined")
  /\ notice' = NoToast
  /\ UNCHANGED <<session, route, db, nextId, pageVars, choiceOps>>

\* the delete button of a listed record: confirm(...), then handleDelete
\* runs up to its await
HandleDelete(i, confirmed) ==
  /\ OnPage
  /\ i \in 1..Len(items)
  /\ IF ~confirmed
       THEN /\ UNCHANGED ops
            /\ lastAct' = Act("HandleDelete", 0, "declined")
       ELSE /\ Room(1)
            /\ ops' = Start(ops, [Idle EXCEPT !.kind = "delete", !.pc = "delete",
                                              !.page = route, !.live = TRUE,
                                              !.id = items[i].id,
                                              !.cause = "delete",
                                              !.sync = InSync(route)])
            /\ lastAct' = NoAct
  /\ notice' = NoToast
  /\ UNCHANGED <<session, route, db, nextId, pageVars, choiceOps>>

\* a delete sent without its .eq('id', id) filter
DeleteServe_NoFilter(s, ok, policy) ==
  /\ s \in Running
  /\ ops[s].kind = "delete" /\ ops[s].pc = "delete"
  /\ IF ok
       THEN /\ db' = [db EXCEPT ![ops[s].page] = {}]
            /\ ops' = Tidy([ops EXCEPT ![s].pc = "deleteResp", ![s].ok = TRUE])
       ELSE /\ ops' = Tidy([ops EXCEPT ![s].pc = "deleteResp", ![s].ok = FALSE])
            /\ UNCHANGED db
  /\ notice' = NoToast
  /\ lastAct' = NoAct
  /\ UNCHANGED <<session, route, nextId, pageVars, choiceOps>>

\* the backend answers the delete
DeleteServe(s, ok, policy) ==
  /\ s \in Running
  /\ ops[s].kind = "delete" /\ ops[s].pc = "delete"
  /\ IF ok
       THEN /\ db' = DeleteRow(db, ops[s].page, ops[s].id, policy)
            /\ ops' = Tidy([ops EXCEPT ![s].pc = "deleteResp", ![s].ok = TRUE])
       ELSE /\ ops' = Tidy([ops EXCEPT ![s].pc = "deleteResp", ![s].ok = FALSE])
            /\ UNCHANGED db
  /\ notice' = NoToast
  /\ lastAct' = NoAct
  /\ UNCHANGED <<session, route, nextId, pageVars, choiceOps>>

DeletedMsg(p) ==
  CASE p = "events"    -> "Event deleted successfully"
    [] p = "attendees" -> "Attendee deleted successfully"
    [] p = "tasks"     -> "Task deleted successfully"

\* a handleDelete that does not call fetchAll after a successful delete
DeleteRecv_NoRefetch(s) ==
  /\ s \in Running
  /\ ops[s].kind = "delete" /\ ops[s].pc = "deleteResp"
  /\ notice' = IF ops[s].ok THEN ToastSuccess(DeletedMsg(ops[s].page))
                            ELSE ToastError(BackendMsg)
  /\ ops' = Finish(ops, s)
  /\ lastAct' = Act("DeleteRecv", s, "")
  /\ UNCHANGED <<session, route, db, nextId, pageVars, choiceOps>>

\* a handleDelete that re-fetches whether or not the delete succeeded
DeleteRecv_RefetchAlways(s) ==
  /\ s \in Running
  /\ ops[s].kind = "delete" /\ ops[s].pc = "deleteResp"
  /\ notice' = IF ops[s].ok THEN ToastSuccess(DeletedMsg(ops[s].page))
                            ELSE ToastError(BackendMsg)
  /\ ops' = Tidy(Refetch(ops, s))
  /\ lastAct' = Act("DeleteRecv", s, "")
  /\ UNCHANGED <<session, route, db, nextId, pageVars, choiceOps>>

\* handleDelete resumes from the delete
DeleteRecv(s) ==
  /\ s \in Running
  /\ ops[s].kind = "delete" /\ ops[s].pc = "deleteResp"
  /\ IF ops[s].ok
       THEN /\ notice' = ToastSuccess(DeletedMsg(ops[s].page))
            /\ ops' = Tidy(Refetch(ops, s))
       ELSE /\ notice' = ToastError(BackendMsg)
            /\ ops' = Finish(ops, s)
  /\ lastAct' = Act("DeleteRecv", s, "")
  /\ UNCHANGED <<session, route, db, nextId, pageVars, choiceOps>>

\* ------------------------------------------- TasksPage: the form's choices
ChoiceTable(k) == IF k = "fetchEvents" THEN "events" ELSE "attendees"

\* TasksPage.fetchEvents / fetchAttendees resumes from getUser()
ChoicesGetUser(k, u) ==
  /\ choiceOps[k].pc = "getUser"
  /\ choiceOps' = IF u = NoUser THEN [choiceOps EXCEPT ![k] = ChoiceIdle]
                  ELSE [choiceOps EXCEPT ![k].pc = "select", ![k].user = u]
  /\ notice' = NoToast
  /\ lastAct' = IF u = NoUser THEN Act("ChoicesGetUser", 0, u) ELSE NoAct
  /\ UNCHANGED <<session, route, db, nextId, pageVars, ops>>

\* the backend answers select('id, name').eq('user_id', user.id)
ChoicesServe(k, ok) ==
  /\ choiceOps[k].pc = "select"
  /\ choiceOps' = [choiceOps EXCEPT
       ![k].pc = "selectResp", ![k].ok = ok,
       ![k].opts = IF ok
                     THEN {[id |-> r.id, name |-> r.name] :
                             r \in {x \in db[ChoiceTable(k)] :
                                      x.user_id = choiceOps[k].user}}
                     ELSE {}]
  /\ notice' = NoToast
  /\ lastAct' = NoAct
  /\ UNCHANGED <<session, route, db, nextId, pageVars, ops>>

\* fetchEvents / fetchAttendees resumes from the select: setEvents(data || [])
ChoicesRecv(k) ==
  /\ choiceOps[k].pc = "selectResp"
  /\ events' = IF k = "fetchEvents" THEN choiceOps[k].opts ELSE events
  /\ attendees' = IF k = "fetchAttendees" THEN choiceOps[k].opts ELSE attendees
  /\ choiceOps' = [choiceOps EXCEPT ![k] = ChoiceIdle]
  /\ notice' = NoToast
  /\ lastAct' = Act("ChoicesRecv", 0, IF choiceOps[k].ok THEN "ok" ELSE "error")
  /\ UNCHANGED <<session, route, db, nextId, items, loading, showForm, formData,
                 ops>>

\* ---------------------------------------------------------- specification
\* ------------------------------------------------------------- login view
SignInKinds == {"password", "oauth"}
RedirectMsg == "Redirecting to Google sign-in..."

SignInOp(k) ==
  [Idle EXCEPT !.kind = k, !.pc = "signIn", !.page = "login", !.live = TRUE]

\* a Google button that stays enabled while a request is outstanding
HandleGoogleSignIn_NoGuard ==
  /\ route = "login"
  /\ Room(1)
  /\ loading' = TRUE
  /\ ops' = Start(ops, SignInOp("oauth"))
  /\ notice' = NoToast
  /\ lastAct' = NoAct
  /\ UNCHANGED <<session, route, db, nextId, items, showForm, formData, events,
                 attendees, choiceOps>>

\* the form is submitted (its button is disabled while loading):
\* setLoading(true), then signInWithPassword is awaited
HandleEmailSignIn ==
  /\ route = "login" /\ ~loading
  /\ Room(1)
  /\ loading' = TRUE
  /\ ops' = Start(ops, SignInOp("password"))
  /\ notice' = NoToast
  /\ lastAct' = NoAct
  /\ UNCHANGED <<session, route, db, nextId, items, showForm, formData, events,
                 attendees, choiceOps>>

\* the Google button (disabled while loading): setLoading(true), then
\* signInWithOAuth is awaited
HandleGoogleSignIn ==
  /\ route = "login" /\ ~loading
  /\ Room(1)
  /\ loading' = TRUE
  /\ ops' = Start(ops, SignInOp("oauth"))
  /\ notice' = NoToast
  /\ lastAct' = NoAct
  /\ UNCHANGED <<session, route, db, nextId, items, showForm, formData, events,
                 attendees, choiceOps>>

\* the backend answers the sign-in request
SignInServe(s, ok) ==
  /\ s \in Running
  /\ ops[s].kind \in SignInKinds /\ ops[s].pc = "signIn"
  /\ ops' = Tidy([ops EXCEPT ![s].pc = "signInResp", ![s].ok = ok])
  /\ notice' = NoToast
  /\ lastAct' = NoAct
  /\ UNCHANGED <<session, route, db, nextId, pageVars, choiceOps>>

\* the handler resumes: navigate('/events') after a password sign-in,
\* toast.success after an OAuth start, toast.error after a failure; finally
\* setLoading(false) on the instance that started it
SignInRecv(s) ==
  /\ s \in Running
  /\ ops[s].kind \in SignInKinds /\ ops[s].pc = "signInResp"
  /\ IF ops[s].ok /\ ops[s].kind = "password"
       THEN LET dest == Resolve(session, "events")
            IN /\ notice' = NoToast
               /\ IF dest = route /\ dest \in Pages
                    THEN /\ ops' = Finish(ops, s)
                         /\ UNCHANGED <<route, pageVars, choiceOps>>
                    ELSE /\ route' = dest
                         /\ items' = <<>>
                         /\ loading' = (dest \in Pages)
                         /\ showForm' = FALSE
                         /\ formData' = EmptyForm(dest)
                         /\ events' = {}
                         /\ attendees' = {}
                         /\ ops' = MountEffect(dest, Unmount(Finish(ops, s)))
                         /\ choiceOps' = MountChoices(dest)
       ELSE /\ notice' = IF ops[s].ok THEN ToastSuccess(RedirectMsg)
                                      ELSE ToastError(BackendMsg)
            /\ loading' = IF ops[s].live THEN FALSE ELSE loading
            /\ ops' = Finish(ops, s)
            /\ UNCHANGED <<route, items, showForm, formData, events, attendees,
                           choiceOps>>
  /\ lastAct' = NoAct
  /\ UNCHANGED <<session, db, nextId>>

Next ==
  \/ \E v \in BOOLEAN : SessionChanged(v)
  \/ HandleEmailSignIn
  \/ HandleGoogleSignIn
  \/ \E s \in Slots, ok \in BOOLEAN : SignInServe(s, ok)
  \/ \E s \in Slots : SignInRecv(s)
  \/ \E r \in Routes : Navigate(r)
  \/ ToggleForm
  \/ Cancel
  \/ \E f \in FormChoices(route) : SetFormData(f)
  \/ \E i \in 1..MaxIds : Edit(i)
  \/ HandleSubmit
  \/ \E i \in 1..MaxIds : ToggleStatus(i)
  \/ \E i \in 1..MaxIds, c \in BOOLEAN : HandleDelete(i, c)
  \/ \E s \in Slots, u \in Users \cup {NoUser} : FetchGetUser(s, u)
  \/ \E s \in Slots, ok \in BOOLEAN : FetchServe(s, ok)
  \/ \E s \in Slots : FetchRecv(s)
  \/ \E s \in Slots, u \in Users \cup {NoUser} : SubmitGetUser(s, u)
  \/ \E s \in Slots, ok \in BOOLEAN : SubmitServe(s, ok)
  \/ \E s \in Slots : SubmitRecv(s)
  \/ \E s \in Slots, ok \in BOOLEAN : ToggleServe(s, ok)
  \/ \E s \in Slots : ToggleRecv(s)
  \/ \E s \in Slots, ok \in BOOLEAN, pol \in {"cascade", "setnull"} : DeleteServe(s, ok, pol)
  \/ \E s \in Slots : DeleteRecv(s)
  \/ \E k \in ChoiceKinds, u \in Users \cup {NoUser} : ChoicesGetUser(k, u)
  \/ \E k \in ChoiceKinds, ok \in BOOLEAN : ChoicesServe(k, ok)
  \/ \E k \in ChoiceKinds : ChoicesRecv(k)

Spec == Init /\ [][Next]_vars

\* ------------------------------------------------- the Tasks page by itself
\* rows the backend already holds when the page is opened
SeedEvent ==
  [id |-> MaxIds + 1, name |-> "Launch", description |-> "", location |-> "HQ",
   date |-> "2025-06-01T10:00:00.000Z", user_id |-> "u1"]

Options(rows, u) == {[id |-> r.id, name |-> r.name] : r \in {x \in rows : x.user_id = u}}

\* a signed-in user is on /tasks: TasksPage is mounted and the fetchTasks(),
\* fetchEvents() and fetchAttendees() of its effect have completed
TasksInit ==
  /\ session = TRUE
  /\ route = "tasks"
  /\ db = [events |-> {SeedEvent}, attendees |-> {}, tasks |-> {}]
  /\ nextId = 1
  /\ items = <<>>
  /\ loading = FALSE
  /\ showForm = FALSE
  /\ formData = EmptyForm("tasks")
  /\ events = Options(db.events, "u1")
  /\ attendees = Options(db.attendees, "u1")
  /\ ops = <<>>
  /\ choiceOps = MountChoices("login")
  /\ notice = NoToast
  /\ lastAct = NoAct

\* the handlers of the page, the user staying on it
TasksNext ==
  \/ ToggleForm
  \/ Cancel
  \/ \E f \in FormChoices(route) : SetFormData(f)
  \/ HandleSubmit
  \/ \E i \in 1..MaxIds : ToggleStatus(i)
  \/ \E i \in 1..MaxIds, c \in BOOLEAN : HandleDelete(i, c)
  \/ \E s \in Slots, u \in Users \cup {NoUser} : FetchGetUser(s, u)
  \/ \E s \in Slots, ok \in BOOLEAN : FetchServe(s, ok)
  \/ \E s \in Slots : FetchRecv(s)
  \/ \E s \in Slots, u \in Users \cup {NoUser} : SubmitGetUser(s, u)
  \/ \E s \in Slots, ok \in BOOLEAN : SubmitServe(s, ok)
  \/ \E s \in Slots : SubmitRecv(s)
  \/ \E s \in Slots, ok \in BOOLEAN : ToggleServe(s, ok)
  \/ \E s \in Slots : ToggleRecv(s)
  \/ \E s \in Slots, ok \in BOOLEAN, pol \in {"cascade", "setnull"} : DeleteServe(s, ok, pol)
  \/ \E s \in Slots : DeleteRecv(s)

TasksSpec == TasksInit /\ [][TasksNext]_vars

\* ------------------------------------------- one request chain at a time
\* The user starts an action (a navigation included) only when no invocation
\* is in flight, and no remote call fails.
Quiet == ops = <<>>

SerialNext ==
  \/ \E v \in BOOLEAN : Quiet /\ SessionChanged(v)
  \/ \E r \in Routes : Quiet /\ Navigate(r)
  \/ ToggleForm
  \/ Cancel
  \/ \E f \in FormChoices(route) : SetFormData(f)
  \/ \E i \in 1..MaxIds : Edit(i)
  \/ Quiet /\ HandleSubmit
  \/ \E i \in 1..MaxIds : Quiet /\ ToggleStatus(i)
  \/ \E i \in 1..MaxIds, c \in BOOLEAN : Quiet /\ HandleDelete(i, c)
  \/ \E s \in Slots, u \in Users : FetchGetUser(s, u)
  \/ \E s \in Slots : FetchServe(s, TRUE)
  \/ \E s \in Slots : FetchRecv(s)
  \/ \E s \in Slots, u \in Users : SubmitGetUser(s, u)
  \/ \E s \in Slots : SubmitServe(s, TRUE)
  \/ \E s \in Slots : SubmitRecv(s)
  \/ \E s \in Slots : ToggleServe(s, TRUE)
  \/ \E s \in Slots : ToggleRecv(s)
  \/ \E s \in Slots, pol \in {"cascade", "setnull"} : DeleteServe(s, TRUE, pol)
  \/ \E s \in Slots : DeleteRecv(s)
  \/ \E k \in ChoiceKinds, u \in Users : ChoicesGetUser(k, u)
  \/ \E k \in ChoiceKinds : ChoicesServe(k, TRUE)
  \/ \E k \in ChoiceKinds : ChoicesRecv(k)

SerialSpec == Init /\ [][SerialNext]_vars

\* ================================================================== claims
\* C1: protected content (the layout and the three pages) is on screen only
\* while the Session Store holds a session, and a navigation made without a
\* session ends on the login view whatever route was asked for.
GuardedBySession ==
  /\ route \in Pages => session
  /\ (lastAct.act = "Navigate" /\ ~session) => route = "login"

\* a page is on screen, reached by a navigation made with a session
ProtectedShown ==
  session /\ route \in Pages /\ lastAct.act = "Navigate" /\ lastAct.arg = route

\* C2: after a navigation to the tasks route made without a session the
\* login view is on screen and no invocation of a mounted page exists: the
\* Tasks page has issued no getUser and no select on tasks, events or attendees.
NoFetchWhenUnauthenticated ==
  (lastAct.act = "Navigate" /\ lastAct.arg = "tasks" /\ ~session) =>
    /\ route = "login"
    /\ \A s \in Running : ~ops[s].live
    /\ ChoicesRunning = 0

\* the tasks route was asked for without a session
TasksRedirected ==
  lastAct.act = "Navigate" /\ lastAct.arg = "tasks" /\ ~session /\ route = "login"


\* ------------------------------------------------ reading a completed step
\* the invocation that ran in the step, as it was before the step
Ran(a) == lastAct'.act = a
TheOp == ops[lastAct'.slot]

\* record r holds form f as the insert stores it
Stored(p, r, f) ==
  CASE p = "events" ->
         /\ r.name = f.name /\ r.description = f.description
         /\ r.location = f.location /\ r.date = ToISOString(f.date)
    [] p = "attendees" ->
         r.name = f.name /\ r.email = f.email /\ r.task = f.task
    [] p = "tasks" ->
         /\ r.name = f.name /\ r.deadline = ToISOString(f.deadline)
         /\ r.event_id = f.event_id /\ r.attendee_id = f.attendee_id
         /\ r.status = "pending"

\* record r holds form f field for field
AsSubmitted(p, r, f) ==
  CASE p = "events" ->
         /\ r.name = f.name /\ r.description = f.description
         /\ r.location = f.location /\ r.date = f.date
    [] p = "attendees" ->
         r.name = f.name /\ r.email = f.email /\ r.task = f.task
    [] p = "tasks" ->
         /\ r.name = f.name /\ r.deadline = f.deadline
         /\ r.event_id = f.event_id /\ r.attendee_id = f.attendee_id

NumFetch(o) == Cardinality({s \in DOMAIN o : o[s].kind = "fetch"})

\* C3 as stated: when the re-fetch started by a successful create completes
\* successfully (nothing else in flight meanwhile), items holds exactly one
\* record that was not listed before, its fields equal the submitted values,
\* its owner is the current user, and every record listed before is still listed.
CreateThenFetchAsSubmitted ==
  [][(Ran("FetchRecv") /\ TheOp.cause = "submit" /\ TheOp.ok) =>
       LET new == Range(items') \ Range(items)
       IN /\ Cardinality(new) = 1
          /\ Len(items') = Len(items) + 1
          /\ \A r \in new : AsSubmitted(TheOp.page, r, TheOp.form) /\ r.user_id = TheOp.user
          /\ Range(items) \subseteq Range(items')]_vars

\* C3 amended: the same, for a submission made while items matched the
\* backend's rows, and with the date or deadline of the new record being the
\* ISO timestamp of the submitted one (a task also has status pending).
CreateThenFetch ==
  [][(Ran("FetchRecv") /\ TheOp.cause = "submit" /\ TheOp.ok /\ TheOp.sync) =>
       LET new == Range(items') \ Range(items)
       IN /\ Cardinality(new) = 1
          /\ Len(items') = Len(items) + 1
          /\ \A r \in new : /\ Stored(TheOp.page, r, TheOp.form)
                             /\ r.user_id = TheOp.user
                             /\ TheOp.user \in Users
          /\ Range(items) \subseteq Range(items')]_vars

\* a create and its re-fetch have completed on a page that already listed a record
CreatedAndListed ==
  /\ lastAct.act = "FetchRecv" /\ lastAct.arg = "submit"
  /\ notice = NoToast
  /\ route \in Pages /\ Len(items) >= 2

\* C4: two successful status updates of the same task, one right after the
\* other, leave the stored status as it was before the first.
ToggleTwiceRestores ==
  [][(lastAct.act = "ToggleServe" /\ Ran("ToggleServe")
        /\ lastAct'.slot = lastAct.slot /\ lastAct.arg # "") =>
       StatusOf(db', lastAct.slot) = lastAct.arg]_vars

\* C5: when the form filled by the edit button of a record is submitted and
\* the re-fetch completes, items has as many records as before and the record
\* with the edited identifier holds the submitted values.
EditUpdatesInPlace ==
  [][(Ran("FetchRecv") /\ TheOp.cause = "submit" /\ TheOp.ok /\ TheOp.sync
        /\ TheOp.edit # 0) =>
       /\ Len(items') = Len(items)
       /\ \E r \in Range(items') : r.id = TheOp.edit /\ Stored(TheOp.page, r, TheOp.form)]_vars

\* C6 as stated: when the re-fetch started by a successful delete(id)
\* completes successfully (nothing else in flight meanwhile), no listed record
\* has identifier id and every other record listed before is still listed.
DeleteThenFetchKeepsOthers ==
  [][(Ran("FetchRecv") /\ TheOp.cause = "delete" /\ TheOp.ok) =>
       /\ \A r \in Range(items') : r.id # TheOp.id
       /\ {r \in Range(items) : r.id # TheOp.id} \subseteq Range(items')]_vars

\* C6 amended: no listed record has identifier id; the other records listed
\* before are still listed when items matched the backend's rows at the
\* moment the delete was confirmed.
DeleteThenFetch ==
  [][(Ran("FetchRecv") /\ TheOp.cause = "delete" /\ TheOp.ok) =>
       /\ \A r \in Range(items') : r.id # TheOp.id
       /\ TheOp.sync => Range(items') = {r \in Range(items) : r.id # TheOp.id}]_vars

\* a delete and its re-fetch have completed and another record is still listed
DeletedAndListed ==
  /\ lastAct.act = "FetchRecv" /\ lastAct.arg = "delete"
  /\ notice = NoToast
  /\ route \in Pages /\ Len(items) >= 1

\* C7: a declined delete confirmation sends nothing to the backend, starts no
\* handler, shows no toast and leaves items, showForm, formData and loading
\* as they were.
DeclineIsNoOp ==
  [][(Ran("HandleDelete") /\ lastAct'.arg = "declined") =>
       /\ UNCHANGED <<items, showForm, formData, loading, db, nextId, ops, choiceOps>>
       /\ notice' = NoToast]_vars

\* the confirmation of a delete was declined on a page that lists a record
DeclinedDelete ==
  /\ lastAct = Act("HandleDelete", 0, "declined")
  /\ route \in Pages /\ Len(items) >= 1

\* C8: a fetchAll that ends without a user or with a backend error leaves
\* items as it was and shows the error; a fetchAll of the mounted page that
\* has completed, either way, leaves loading false.
FailedFetchKeepsItems ==
  [][/\ Ran("FetchGetUser") =>
          /\ items' = items
          /\ notice' = ToastError(NoUserMsg)
          /\ TheOp.live => ~loading'
     /\ (Ran("FetchRecv") /\ ~TheOp.ok) =>
          /\ items' = items
          /\ notice' = ToastError(BackendMsg)
          /\ TheOp.live => ~loading'
     /\ (Ran("FetchRecv") /\ TheOp.ok /\ TheOp.live) => ~loading']_vars

\* a fetch has failed on a page that lists a record
FetchFailedShown ==
  /\ lastAct.act = "FetchRecv"
  /\ notice = ToastError(BackendMsg)
  /\ route \in Pages /\ Len(items) >= 1 /\ ~loading

\* C9 as stated: when the create succeeded a confirmation is shown, the form
\* is hidden and emptied and one fetchAll is started; when it failed the error
\* is shown, showForm and formData have the values they had at submit time,
\* items is unchanged and no fetchAll is started.
CreateOutcomeAtSubmitValues ==
  [][/\ (Ran("SubmitRecv") /\ TheOp.ok) =>
          /\ notice' = ToastSuccess(CreatedMsg(TheOp.page))
          /\ TheOp.live => (~showForm' /\ formData' = EmptyForm(TheOp.page))
          /\ NumFetch(ops') = NumFetch(ops) + 1
     /\ (Ran("SubmitRecv") /\ ~TheOp.ok) =>
          /\ notice' = ToastError(BackendMsg)
          /\ TheOp.live => (showForm' /\ formData' = TheOp.form)
          /\ items' = items
          /\ NumFetch(ops') = NumFetch(ops)]_vars

\* C9 amended: on failure showForm and formData are left as they are when the
\* failure arrives (a missing user is a failure too).
CreateOutcome ==
  [][/\ (Ran("SubmitRecv") /\ TheOp.ok) =>
          /\ notice' = ToastSuccess(CreatedMsg(TheOp.page))
          /\ TheOp.live => (~showForm' /\ formData' = EmptyForm(TheOp.page))
          /\ NumFetch(ops') = NumFetch(ops) + 1
          /\ Len(ops') = Len(ops)
     /\ (Ran("SubmitRecv") /\ ~TheOp.ok) =>
          /\ notice' = ToastError(BackendMsg)
          /\ UNCHANGED <<showForm, formData, items>>
          /\ NumFetch(ops') = NumFetch(ops)
          /\ Len(ops') = Len(ops) - 1
     /\ Ran("SubmitGetUser") =>
          /\ notice' = ToastError(NoUserMsg)
          /\ UNCHANGED <<showForm, formData, items>>
          /\ NumFetch(ops') = NumFetch(ops)
          /\ Len(ops') = Len(ops) - 1]_vars

\* a create has failed and the form is still open with its values
CreateFailedFormKept ==
  /\ lastAct.act = "SubmitRecv"
  /\ notice = ToastError(BackendMsg)
  /\ route \in Pages /\ showForm /\ Valid(route, formData)

\* C10: every remote call of a page that fails ends in an error toast, the
\* loading of the Tasks form's event and attendee choices included.
EveryFailureNotified ==
  [][/\ (\E a \in {"FetchRecv", "SubmitRecv", "ToggleRecv", "DeleteRecv"} :
            Ran(a) /\ ~TheOp.ok) => notice'.type = "error"
     /\ (Ran("ChoicesRecv") /\ lastAct'.arg = "error") => notice'.type = "error"]_vars

\* ------------------------------------------------------------------- C11
SignIns(o) == {s \in DOMAIN o : o[s].kind \in SignInKinds}
LiveSignIns == {s \in SignIns(ops) : ops[s].live}

\* C11 as stated: at most one sign-in request is in flight at any time.
OneSignInInFlight == Cardinality(SignIns(ops)) <= 1

\* C11 amended: of the login view on screen, at most one sign-in request is
\* in flight; its buttons are disabled exactly while that request is
\* outstanding, so no second one can be started before it completes and
\* either can be started again once it has, successfully or not.
OneSignInPerView ==
  /\ Cardinality(LiveSignIns) <= 1
  /\ route = "login" => (loading <=> LiveSignIns # {})
  /\ route # "login" => LiveSignIns = {}

\* a sign-in request of the login view on screen is outstanding
SignInOutstanding ==
  route = "login" /\ loading /\ \E s \in LiveSignIns : ops[s].pc = "signIn"

\* ------------------------------------------------------------------- C12
Statuses == {"pending", "completed"}

\* C12: every stored task has status pending or completed, and a task that
\* a step has just created is stored with status pending.
TaskStatusValid ==
  [][\A t \in db'.tasks :
       /\ t.status \in Statuses
       /\ (\A q \in db.tasks : q.id # t.id) => t.status = "pending"]_vars

\* a task without attendee has just been created
UnassignedTaskCreated ==
  /\ notice = ToastSuccess(CreatedMsg("tasks"))
  /\ \E t \in db.tasks : t.attendee_id = 0 /\ t.status = "pending"

\* ------------------------------------------------------------------- C13
SameButStatus(t, u) == [u EXCEPT !.status = t.status] = t

\* C13: no step changes the event reference of a stored task; a served
\* status update changes nothing in the backend but the status of the task
\* it names: that task's other fields, every other task, the events and the
\* attendees stay as they were and no task appears or disappears.
ToggleFrame ==
  [][/\ \A t \in db.tasks, u \in db'.tasks : t.id = u.id => u.event_id = t.event_id
     /\ Ran("ToggleServe") =>
          /\ db'.events = db.events /\ db'.attendees = db.attendees
          /\ {u.id : u \in db'.tasks} = {t.id : t \in db.tasks}
          /\ \A t \in db.tasks, u \in db'.tasks :
                t.id = u.id =>
                  IF t.id = lastAct'.slot THEN SameButStatus(t, u) ELSE u = t]_vars

\* a status update has been served while the backend holds another task
ToggledAmongOthers ==
  /\ lastAct.act = "ToggleServe"
  /\ \E t \in db.tasks : t.id = lastAct.slot /\ t.status # lastAct.arg
  /\ \E t \in db.tasks : t.id # lastAct.slot

\* ------------------------------------------------------------------- C14
\* C14: every fetchAll of the mounted page that completes successfully puts
\* its own result in items, whatever else is in flight and whichever fetch
\* was started first: the list shown is the result of the fetch that
\* completed last.
LastFetchWins ==
  [][(Ran("FetchRecv") /\ TheOp.ok /\ TheOp.live) => items' = TheOp.res]_vars

\* one fetchAll has just completed while another one of the same page holds
\* a different result
RacingFetches ==
  /\ lastAct.act = "FetchRecv" /\ notice = NoToast
  /\ \E s \in Running :
        /\ ops[s].kind = "fetch" /\ ops[s].live
        /\ ops[s].pc = "selectResp" /\ ops[s].ok
        /\ ops[s].res # items

\* ------------------------------------------------------------------- C15
\* C15: when getUser() reports no user to a fetchAll or a create, whatever
\* the Session Store holds, the invocation ends there: the error is shown,
\* the backend's rows and items are untouched, and the invocation is gone
\* with no other one started in its place.
NoUserEndsOperation ==
  [][(Ran("FetchGetUser") \/ Ran("SubmitGetUser")) =>
       /\ lastAct'.arg = NoUser
       /\ notice' = ToastError(NoUserMsg)
       /\ db' = db /\ nextId' = nextId
       /\ items' = items
       /\ ops' = RemoveAt(ops, lastAct'.slot)
       /\ choiceOps' = choiceOps]_vars

\* a create has found no user although the Session Store holds a session
CreateWithoutUser ==
  /\ lastAct.act = "SubmitGetUser"
  /\ session /\ route \in Pages
  /\ showForm /\ Valid(route, formData)

\* ------------------------------------------------------------------- C16
Mutations == {"SubmitRecv", "ToggleRecv", "DeleteRecv"}

\* C16: when the insert, update or delete of a handler has returned an
\* error, the handler shows the error and ends: its invocation is gone, no
\* fetchAll or other invocation is started, and items and the backend's rows
\* are as they were.
FailedMutationEnds ==
  [][(lastAct'.act \in Mutations /\ ~TheOp.ok) =>
       /\ notice' = ToastError(BackendMsg)
       /\ ops' = RemoveAt(ops, lastAct'.slot)
       /\ choiceOps' = choiceOps
       /\ items' = items
       /\ db' = db /\ nextId' = nextId]_vars

\* a delete has failed on a page that lists a record
DeleteFailedShown ==
  /\ lastAct.act = "DeleteRecv"
  /\ notice = ToastError(BackendMsg)
  /\ route \in Pages /\ Len(items) >= 1 /\ ops = <<>>

\* ------------------------------------------------------------------- C17
\* C17: when every action of the user (a navigation included) is started
\* with no request in flight and no remote call fails, then whenever no
\* request is in flight the items of the page on screen are the backend's
\* rows of the user, in the page's sort order.
SerialConsistent ==
  (route \in Pages /\ Quiet) =>
    \E u \in Users : items \in SortedSeqs(route, Visible(db, route, u))

\* the Tasks page is at rest after a status update and its re-fetch
AtRestAfterToggle ==
  /\ route = "tasks" /\ Quiet
  /\ lastAct.act = "FetchRecv" /\ lastAct.arg = "toggle"
  /\ \E i \in 1..Len(items) : items[i].status = "completed"

\* ------------------------------------------------------------------- C18
\* the step has put a new page instance on screen (a navigation always
\* does, also one that is redirected back to the route it left)
Mounted == route' # route \/ Ran("Navigate")

\* C18: a page starts with loading true when it mounts; a fetchAll of the
\* page that completes leaves loading false; and while the page stays on
\* screen no step turns loading from false back to true.
LoadingMonotone ==
  [][/\ (Mounted /\ route' \in Pages) => loading'
     /\ ((Ran("FetchRecv") \/ Ran("FetchGetUser")) /\ TheOp.live) => ~loading'
     /\ (route \in Pages /\ ~Mounted /\ ~loading) => ~loading']_vars

\* a re-fetch is in flight while the list and the open form are on screen
RefetchBehindList ==
  /\ route \in Pages /\ ~loading
  /\ Len(items) >= 1 /\ showForm
  /\ \E s \in Running : ops[s].kind = "fetch" /\ ops[s].live
====
